---- MODULE Spec2Model ----
(***************************************************************************)
(* Image Prompt Extractor (Node.js/Express server, src/server.js) and its   *)
(* JavaScript client (ImagePromptExtractor and Semaphore).                 *)
(*                                                                         *)
(* The model follows the server's event loop: every action is one          *)
(* run-to-completion segment of JavaScript between two awaits.  Shared     *)
(* state is the rate window (requestCount, lastResetTime); every request   *)
(* in flight owns one slot of req.                                         *)
(***************************************************************************)
EXTENDS Integers, Sequences, FiniteSets, TLC

VARIABLES
    clock,          \* Date.now(), in ms since the module was loaded
    requestCount,   \* server.js:44
    lastResetTime,  \* server.js:45
    admitted,       \* history: provider calls started since the last reset
    req,            \* the requests in flight, one record per connection slot
    answered,       \* the request the last step answered (Idle: it answered none)
    semaphore,      \* the client's Semaphore: maxConcurrency, currentConcurrency, queue
    tasks,          \* analyzeBatch: the async function started for each input
    results,        \* analyzeBatch: the results array, in order of completion
    batch           \* the analyzeBatch call: its position, options and return value

serverVars == <<clock, requestCount, lastResetTime, admitted, req, answered>>

clientVars == <<semaphore, tasks, results, batch>>

vars == <<clock, requestCount, lastResetTime, admitted, req, answered,
          semaphore, tasks, results, batch>>

----------------------------------------------------------------------------
(* Program constants *)

WINDOW == 60000
CEILING == 15
FILE_SIZE_LIMIT == 33554432

(* Bounds of the model *)

NumSlots == 2
MaxTicks == 3
MaxAdmitted == 17
MaxBody == 3
MaxInputs == 3
MaxConcurrency == 3
MaxRetryAttempts == 4

Slots == 1..NumSlots

\* The clock is sampled on a grid of half windows: elapsed times below, at and
\* above the window length all occur.
TICK == WINDOW \div 2
Instants == {k * TICK : k \in 0..MaxTicks}

----------------------------------------------------------------------------
(* Text: a JavaScript string is a sequence of one-character strings *)

Whitespace == {" ", "\t", "\n", "\r"}

UpperCase ==
    ("A" :> "a") @@ ("B" :> "b") @@ ("C" :> "c") @@ ("D" :> "d") @@ ("E" :> "e") @@
    ("F" :> "f") @@ ("G" :> "g") @@ ("H" :> "h") @@ ("I" :> "i") @@ ("J" :> "j") @@
    ("K" :> "k") @@ ("L" :> "l") @@ ("M" :> "m") @@ ("N" :> "n") @@ ("O" :> "o") @@
    ("P" :> "p") @@ ("Q" :> "q") @@ ("R" :> "r") @@ ("S" :> "s") @@ ("T" :> "t") @@
    ("U" :> "u") @@ ("V" :> "v") @@ ("W" :> "w") @@ ("X" :> "x") @@ ("Y" :> "y") @@
    ("Z" :> "z")

toLowerCase(s) ==
    [i \in 1..Len(s) |-> IF s[i] \in DOMAIN UpperCase THEN UpperCase[s[i]] ELSE s[i]]

startsWith(s, p) == Len(p) <= Len(s) /\ SubSeq(s, 1, Len(p)) = p

endsWith(s, p) == Len(p) <= Len(s) /\ SubSeq(s, Len(s) - Len(p) + 1, Len(s)) = p

\* s.slice(n) for 0 <= n
sliceFrom(s, n) == SubSeq(s, n + 1, Len(s))

\* s.slice(1, -1) and s.slice(0, -1)
sliceInner(s) == SubSeq(s, 2, Len(s) - 1)

sliceButLast(s) == SubSeq(s, 1, Len(s) - 1)

trim(s) ==
    LET keep == {i \in 1..Len(s) : s[i] \notin Whitespace}
    IN  IF keep = {} THEN <<>>
        ELSE LET lo == CHOOSE i \in keep : \A j \in keep : i <= j
                 hi == CHOOSE i \in keep : \A j \in keep : j <= i
             IN  SubSeq(s, lo, hi)

\* s.replace(/\*\*/g, ''): leftmost non-overlapping pairs of stars
RECURSIVE removeStarPairs(_)
removeStarPairs(s) ==
    IF Len(s) = 0 THEN <<>>
    ELSE IF Len(s) >= 2 /\ s[1] = "*" /\ s[2] = "*" THEN removeStarPairs(sliceFrom(s, 2))
    ELSE <<s[1]>> \o removeStarPairs(Tail(s))

\* s.replace(/\*/g, '')
removeStars(s) == SelectSeq(s, LAMBDA c : c # "*")

\* s.replace(/\s+/g, ' ')
RECURSIVE collapseWhitespace(_)
collapseWhitespace(s) ==
    IF Len(s) = 0 THEN <<>>
    ELSE IF s[1] \in Whitespace
         THEN IF Len(s) >= 2 /\ s[2] \in Whitespace
              THEN collapseWhitespace(Tail(s))
              ELSE <<" ">> \o collapseWhitespace(Tail(s))
    ELSE <<s[1]>> \o collapseWhitespace(Tail(s))

prefixes == <<
    <<"H","e","r","e","'","s"," ","a"," ","d","e","t","a","i","l","e","d"," ","d","e","s","c","r","i","p","t","i","o","n"," ","o","f"," ","t","h","e"," ","i","m","a","g","e",":">>,
    <<"H","e","r","e","'","s"," ","a"," ","d","e","t","a","i","l","e","d"," ","d","e","s","c","r","i","p","t","i","o","n",":">>,
    <<"T","h","i","s"," ","i","m","a","g","e"," ","s","h","o","w","s",":">>,
    <<"T","h","i","s"," ","i","m","a","g","e"," ","d","e","p","i","c","t","s",":">>,
    <<"T","h","e"," ","i","m","a","g","e"," ","s","h","o","w","s",":">>,
    <<"T","h","e"," ","i","m","a","g","e"," ","d","e","p","i","c","t","s",":">>,
    <<"I"," ","c","a","n"," ","s","e","e",":">>,
    <<"L","o","o","k","i","n","g"," ","a","t"," ","t","h","i","s"," ","i","m","a","g","e",":">>,
    <<"I","n"," ","t","h","i","s"," ","i","m","a","g","e",":">>
>>

\* Mutant: the loop has no break, every later prefix in the list is tried on
\* what is left
RECURSIVE stripFrom(_, _)
stripFrom(s, i) ==
    IF i > Len(prefixes) THEN s
    ELSE IF startsWith(toLowerCase(s), toLowerCase(prefixes[i]))
         THEN stripFrom(trim(sliceFrom(s, Len(prefixes[i]))), i + 1)
         ELSE stripFrom(s, i + 1)

stripEveryPrefix(s) == stripFrom(s, 1)

\* The for loop over prefixes with its break: the first matching prefix is cut.
stripPrefix(s) ==
    LET hits == {i \in 1..Len(prefixes) :
                    startsWith(toLowerCase(s), toLowerCase(prefixes[i]))}
    IN  IF hits = {} THEN s
        ELSE LET first == CHOOSE i \in hits : \A j \in hits : i <= j
             IN  trim(sliceFrom(s, Len(prefixes[first])))

stripQuotes(s) ==
    IF startsWith(s, <<"\"">>) /\ endsWith(s, <<"\"">>) THEN sliceInner(s) ELSE s

dropPeriod(s) == IF endsWith(s, <<".">>) THEN sliceButLast(s) ELSE s

\* generatePrompt's cleanup of response.text()
cleanup(text) ==
    LET p1 == stripQuotes(trim(text))
        p2 == stripPrefix(p1)
        p3 == removeStars(removeStarPairs(p2))
        p4 == trim(collapseWhitespace(p3))
    IN  dropPeriod(p4)

\* Provider texts for the cleanup on its own: what may stand before a prefix,
\* up to two prefixes (one in a different case), and a body over the characters
\* the cleanup steps look at.
Alphabet == {"a", " ", ".", "\"", "*"}

Bodies == UNION {[1..n -> Alphabet] : n \in 0..MaxBody}

Openers == {<<>>, <<" ">>, <<"\"">>, <<"*">>}

Leads == {<<>>} \cup {prefixes[i] : i \in 1..Len(prefixes)} \cup {toLowerCase(prefixes[3])}

SecondLeads == {<<>>, <<" ">> \o prefixes[7], prefixes[9]}

Texts == {o \o l1 \o l2 \o b : o \in Openers, l1 \in Leads, l2 \in SecondLeads, b \in Bodies}

----------------------------------------------------------------------------
(* Rate limiting (server.js:43-64) *)

\* Mutant: the window is never reset
windowNeverExpires(now, last) == FALSE

windowExpired(now, last) == now - last > WINDOW

\* Mutant: the wait ignores the time already elapsed in the window
waitWholeWindow(now, last) == WINDOW

\* Mutant: the wait is counted from the end of the window
waitTwoWindows(now, last) == 2 * WINDOW - (now - last)

waitTime(now, last) == WINDOW - (now - last)

\* One call of rateLimit() at time now on the window <<count, last>>: the window
\* it leaves and the delay of the promise it returns (0: already resolved).
rateLimit(now, count, last) ==
    LET c0 == IF windowExpired(now, last) THEN 0 ELSE count
        l0 == IF windowExpired(now, last) THEN now ELSE last
        w  == waitTime(now, l0)
    IN  IF c0 >= CEILING /\ w > 0
        THEN [count |-> c0, last |-> l0, wait |-> w]
        ELSE [count |-> c0 + 1, last |-> l0, wait |-> 0]

----------------------------------------------------------------------------
(* Requests *)

Clients == {
    [route |-> "/api/analyze", accept |-> "application/json"],
    [route |-> "/analyze", accept |-> "application/json"],
    [route |-> "/analyze", accept |-> "text/html"] }

NoFile == [mimetype |-> "none", size |-> 0]

Uploads == {
    NoFile,
    [mimetype |-> "image/png", size |-> 1024],
    [mimetype |-> "image/png", size |-> FILE_SIZE_LIMIT + 1],
    [mimetype |-> "text/plain", size |-> 1024],
    [mimetype |-> "text/plain", size |-> FILE_SIZE_LIMIT + 1] }

allowedTypes == {"image/png", "image/jpg", "image/jpeg", "image/gif", "image/webp",
                 "image/bmp", "image/tiff", "image/svg+xml", "image/x-icon",
                 "image/heic", "image/heif", "image/avif"}

\* Why axios may reject: no or a bad answer, or a body above maxContentLength
DownloadErrors == {"network", "maxContentLength"}

\* What the provider's response.text() may return
RawTexts == {
    <<"T","h","i","s"," ","i","m","a","g","e"," ","s","h","o","w","s",":"," ","a"," ","r","e","d"," ","b","a","l","l",".">>,
    <<" ","\"","a"," ","*","*","c","a","t","*","*"," "," ","s","l","e","e","p","i","n","g","\""," ">> }

Idle == [pc |-> "Idle", route |-> "none", accept |-> "none", url |-> FALSE,
         file |-> NoFile, calledAt |-> 0, wakeAt |-> 0, waited |-> FALSE,
         raw |-> <<>>, cause |-> "none",
         input |-> 0, imageBuffer |-> 0, processedImage |-> 0, imageParts |-> 0, textOf |-> 0,
         status |-> 0, success |-> FALSE, hasPrompt |-> FALSE, prompt |-> <<>>,
         error |-> "none", downloads |-> 0, processed |-> 0, rlCalls |-> 0,
         counted |-> 0, genCalls |-> 0, responses |-> 0]

Terminal == {"Done", "Failed"}

InFlight == Cardinality({r \in Slots : req[r].pc # "Idle"})

wantsJson(q) == q.accept = "application/json"

\* res.status(code).json({success: false, error})
jsonError(q, code, msg) ==
    [q EXCEPT !.pc = "Failed", !.status = code, !.success = FALSE, !.error = msg,
              !.responses = @ + 1]

\* res.json({success: true, prompt})
jsonPrompt(q, p) ==
    [q EXCEPT !.pc = "Done", !.status = 200, !.success = TRUE, !.hasPrompt = TRUE,
              !.prompt = p, !.responses = @ + 1]

\* res.redirect(`/?success=true&prompt=...`) and res.redirect(`/?error=...`)
redirectPrompt(q, p) ==
    [q EXCEPT !.pc = "Done", !.status = 302, !.success = TRUE, !.hasPrompt = TRUE,
              !.prompt = p, !.responses = @ + 1]

redirectError(q, msg) ==
    [q EXCEPT !.pc = "Failed", !.status = 302, !.success = FALSE, !.error = msg,
              !.responses = @ + 1]

\* Mutant: the catch block answers with the status of a bad request
catchErrorBadRequest(q, msg) ==
    IF q.route = "/api/analyze" \/ wantsJson(q)
    THEN jsonError(q, 400, msg)
    ELSE redirectError(q, msg)

\* The catch block of a route handler
catchError(q, msg) ==
    IF q.route = "/api/analyze" \/ wantsJson(q)
    THEN jsonError(q, 500, msg)
    ELSE redirectError(q, msg)

\* Mutant: multer is configured without limits.fileSize
multerNoSizeLimit(file) ==
    IF file = NoFile THEN "next"
    ELSE IF file.mimetype \notin allowedTypes THEN "Invalid file type"
    ELSE "next"

\* upload.single('image_file'): multer's size limit and the fileFilter
multer(file) ==
    IF file = NoFile THEN "next"
    ELSE IF file.mimetype \notin allowedTypes THEN "Invalid file type"
    ELSE IF file.size > FILE_SIZE_LIMIT THEN "LIMIT_FILE_SIZE"
    ELSE "next"

\* The error handling middleware
errorMiddleware(q, err) ==
    IF err = "LIMIT_FILE_SIZE"
    THEN jsonError(q, 413, "File too large")
    ELSE jsonError(q, 500, "Internal server error")

\* Mutant: the check for both sources is missing
handlerNoBothCheck(q) ==
    LET hasFile == q.file # NoFile
    IN  IF ~q.url /\ ~hasFile THEN jsonError(q, 400, "provide either")
        ELSE IF q.url THEN [q EXCEPT !.pc = "Acquiring", !.downloads = @ + 1]
        ELSE [q EXCEPT !.pc = "Normalizing", !.processed = @ + 1]

\* Mutant: the 400 responses are sent without return
handlerNoReturn(q) ==
    LET hasFile == q.file # NoFile
        q1 == IF q.url /\ hasFile THEN jsonError(q, 400, "not both") ELSE q
        q2 == IF ~q.url /\ ~hasFile THEN jsonError(q1, 400, "provide either") ELSE q1
    IN  IF q.url THEN [q2 EXCEPT !.pc = "Acquiring", !.downloads = @ + 1]
        ELSE [q2 EXCEPT !.pc = "Normalizing", !.processed = @ + 1]

\* Mutant: the download is started before the sources are validated
handlerValidatesLate(q) ==
    LET hasFile == q.file # NoFile
        q1 == IF q.url THEN [q EXCEPT !.downloads = @ + 1] ELSE q
    IN  IF q.url /\ hasFile THEN jsonError(q1, 400, "not both")
        ELSE IF ~q.url /\ ~hasFile THEN jsonError(q1, 400, "provide either")
        ELSE IF q.url THEN [q1 EXCEPT !.pc = "Acquiring"]
        ELSE [q1 EXCEPT !.pc = "Normalizing", !.processed = @ + 1]

\* A route handler up to its first await
handler(q) ==
    LET hasFile == q.file # NoFile
    IN  IF q.url /\ hasFile THEN jsonError(q, 400, "not both")
        ELSE IF ~q.url /\ ~hasFile THEN jsonError(q, 400, "provide either")
        ELSE IF q.url THEN [q EXCEPT !.pc = "Acquiring", !.downloads = @ + 1]
        ELSE [q EXCEPT !.pc = "Normalizing", !.processed = @ + 1, !.imageBuffer = q.input]

----------------------------------------------------------------------------
(* The client: class Semaphore and class ImagePromptExtractor *)

\* No analyzeBatch call has been made
NoSemaphore == [maxConcurrency |-> 0, currentConcurrency |-> 0, queue |-> <<>>]

NoBatch == [pc |-> "none", inputs |-> 0, retryAttempts |-> 0, returned |-> <<>>]

\* new Semaphore(maxConcurrency)
Semaphore(maxConcurrency) ==
    [maxConcurrency |-> maxConcurrency, currentConcurrency |-> 0, queue |-> <<>>]

\* The async function of one input before its first statement.  attempt is the
\* loop variable of analyze, calls counts the analyzeImageFrom... calls made,
\* lastError and error name the attempt whose error is held and thrown
\* (Unavailable: the error of the health check).
NewTask == [pc |-> "new", attempt |-> 0, calls |-> 0, lastError |-> 0, delayMs |-> 0,
            error |-> 0]

Unavailable == 0 - 1

Settled == {"fulfilled", "rejected"}

\* The states in which a task is inside this.analyze(input)
Analyzing == {"health", "attempt", "delay"}

\* Mutant: acquire() grants a permit whatever the count
acquireAlways(sem, i) == [sem EXCEPT !.currentConcurrency = @ + 1]

\* Semaphore.acquire() called by task i: the executor of the promise runs at once
acquire(sem, i) ==
    IF sem.currentConcurrency < sem.maxConcurrency
    THEN [sem EXCEPT !.currentConcurrency = @ + 1]
    ELSE [sem EXCEPT !.queue = Append(@, i)]

\* Semaphore.release()
release(sem) ==
    LET s1 == [sem EXCEPT !.currentConcurrency = @ - 1]
    IN  IF Len(s1.queue) > 0
        THEN [s1 EXCEPT !.queue = Tail(@), !.currentConcurrency = @ + 1]
        ELSE s1

\* The tasks whose resolve function is in the queue
Waiting(sem) == {sem.queue[k] : k \in 1..Len(sem.queue)}

\* inputs.map(async ...): the functions of inputs i..n-1 run in index order up to
\* their await of acquire()
RECURSIVE mapAcquire(_, _, _)
mapAcquire(sem, i, n) ==
    IF i >= n THEN sem ELSE mapAcquire(acquire(sem, i), i + 1, n)

\* The delay before the next attempt
backoff(attempt) == 1000 * attempt

\* Mutant: the results are returned in the order of completion
keepOrder(rs) == rs

\* results.sort((a, b) => a.index - b.index), the indices being distinct
RECURSIVE sortByIndex(_)
sortByIndex(rs) ==
    IF Len(rs) = 0 THEN <<>>
    ELSE LET k == CHOOSE k \in 1..Len(rs) : \A j \in 1..Len(rs) : rs[k].index <= rs[j].index
             rest == SubSeq(rs, 1, k - 1) \o SubSeq(rs, k + 1, Len(rs))
         IN  <<rs[k]>> \o sortByIndex(rest)

----------------------------------------------------------------------------
(* Actions *)

Init ==
    /\ clock = 0
    /\ requestCount = 0
    /\ lastResetTime = 0
    /\ admitted = 0
    /\ req = [r \in Slots |-> Idle]
    /\ answered = Idle
    /\ semaphore = NoSemaphore
    /\ tasks = <<>>
    /\ results = <<>>
    /\ batch = NoBatch

\* Request r is left as q by a step: answered, its slot is free for the next
\* connection; otherwise it stays in flight.
Continue(r, q) ==
    /\ IF q.pc \in Terminal
       THEN req' = [req EXCEPT ![r] = Idle] /\ answered' = q
       ELSE req' = [req EXCEPT ![r] = q] /\ answered' = Idle
    /\ UNCHANGED clientVars

\* answered is the server's output: no step reads it, and the event loop takes
\* its next event once the response has left.
Ready == answered = Idle

\* The response is written out (res.end)
EndResponse ==
    /\ answered # Idle
    /\ answered' = Idle
    /\ UNCHANGED <<clock, requestCount, lastResetTime, admitted, req>>
    /\ UNCHANGED clientVars

\* Time passes
Tick ==
    /\ Ready
    /\ \E t \in Instants : t > clock /\ clock' = t
    /\ answered' = Idle
    /\ UNCHANGED <<requestCount, lastResetTime, admitted, req>>
    /\ UNCHANGED clientVars

\* A request arrives: multer parses the body, then the handler runs to its first await
Arrive(r) ==
    /\ Ready
    /\ req[r].pc = "Idle"
    /\ \A s \in Slots : s < r => req[s].pc # "Idle"
    /\ admitted + InFlight < MaxAdmitted
    /\ \E c \in Clients, u \in BOOLEAN, f \in Uploads :
        LET q == [Idle EXCEPT !.route = c.route, !.accept = c.accept, !.url = u, !.file = f,
                              !.input = r]
            m == multer(f)
        IN  Continue(r, IF m = "next" THEN handler(q) ELSE errorMiddleware(q, m))
    /\ UNCHANGED <<clock, requestCount, lastResetTime, admitted>>

\* Mutant: the downloaded bytes are kept in one buffer shared by all requests
DownloadOkShared(r) ==
    /\ Ready
    /\ req[r].pc = "Acquiring"
    /\ \E s \in Slots :
        /\ req[s].pc # "Idle"
        /\ Continue(r, [req[r] EXCEPT !.pc = "Normalizing", !.processed = @ + 1,
                                     !.imageBuffer = req[s].input])
    /\ UNCHANGED <<clock, requestCount, lastResetTime, admitted>>

\* downloadImage resolves: the handler goes on to processImage
DownloadOk(r) ==
    /\ Ready
    /\ req[r].pc = "Acquiring"
    /\ Continue(r, [req[r] EXCEPT !.pc = "Normalizing", !.processed = @ + 1,
                                 !.imageBuffer = req[r].input])
    /\ UNCHANGED <<clock, requestCount, lastResetTime, admitted>>

\* Mutant: a failed download is tried again
DownloadFailRetry(r) ==
    /\ Ready
    /\ req[r].pc = "Acquiring"
    /\ Continue(r, [req[r] EXCEPT !.downloads = @ + 1])
    /\ UNCHANGED <<clock, requestCount, lastResetTime, admitted>>

\* axios rejects (network, status, timeout, maxContentLength)
DownloadFail(r) ==
    /\ Ready
    /\ req[r].pc = "Acquiring"
    /\ \E why \in DownloadErrors :
        Continue(r, catchError([req[r] EXCEPT !.cause = why], "Failed to download image"))
    /\ UNCHANGED <<clock, requestCount, lastResetTime, admitted>>

\* generatePrompt up to its await of rateLimit(), and on to the provider call
\* when the promise it got is already resolved
generatePrompt(q, rl, now) ==
    IF rl.wait > 0
    THEN [q EXCEPT !.pc = "RateLimited", !.rlCalls = @ + 1, !.calledAt = now,
                   !.wakeAt = now + rl.wait]
    ELSE [q EXCEPT !.pc = "Generating", !.rlCalls = @ + 1, !.genCalls = @ + 1,
                   !.imageParts = q.processedImage]

\* sharp resolves: the handler calls generatePrompt, which calls rateLimit()
ProcessOk(r) ==
    /\ Ready
    /\ req[r].pc = "Normalizing"
    /\ LET rl == rateLimit(clock, requestCount, lastResetTime)
           reset == rl.last # lastResetTime
           \* history: the increments of requestCount this call made
           incr == IF reset THEN rl.count ELSE rl.count - requestCount
           img == [req[r] EXCEPT !.processedImage = req[r].imageBuffer]
           q  == [generatePrompt(img, rl, clock) EXCEPT !.counted = incr]
           base == IF reset THEN 0 ELSE admitted
       IN  /\ requestCount' = rl.count
           /\ lastResetTime' = rl.last
           /\ admitted' = base + (q.genCalls - req[r].genCalls)
           /\ Continue(r, q)
    /\ UNCHANGED clock

\* Mutant: the rate-limit slot is taken before the image is processed
ProcessFailCounted(r) ==
    /\ Ready
    /\ req[r].pc = "Normalizing"
    /\ requestCount < CEILING
    /\ requestCount' = requestCount + 1
    /\ Continue(r, catchError([req[r] EXCEPT !.rlCalls = @ + 1, !.counted = @ + 1],
                              "Image processing failed"))
    /\ UNCHANGED <<clock, lastResetTime, admitted>>

\* sharp rejects: processImage throws
ProcessFail(r) ==
    /\ Ready
    /\ req[r].pc = "Normalizing"
    /\ Continue(r, catchError(req[r], "Image processing failed"))
    /\ UNCHANGED <<clock, requestCount, lastResetTime, admitted>>

\* Mutant: after the wait the request goes through the pipeline's limiter again
TimerFiresRecheck(r) ==
    /\ Ready
    /\ req[r].pc = "RateLimited"
    /\ clock >= req[r].wakeAt
    /\ Continue(r, [req[r] EXCEPT !.pc = "Normalizing", !.waited = TRUE, !.calledAt = 0,
                                !.wakeAt = 0])
    /\ UNCHANGED <<clock, requestCount, lastResetTime, admitted>>

\* Mutant: the wait ends in a rejection that the handler's catch answers
TimerFiresRejects(r) ==
    /\ Ready
    /\ req[r].pc = "RateLimited"
    /\ clock >= req[r].wakeAt
    /\ Continue(r, catchError([req[r] EXCEPT !.waited = TRUE, !.calledAt = 0, !.wakeAt = 0],
                              "Failed to generate prompt"))
    /\ UNCHANGED <<clock, requestCount, lastResetTime, admitted>>

\* The setTimeout of rateLimit() fires: generatePrompt goes on to the provider call
TimerFires(r) ==
    /\ Ready
    /\ req[r].pc = "RateLimited"
    /\ clock >= req[r].wakeAt
    /\ Continue(r, [req[r] EXCEPT !.pc = "Generating", !.waited = TRUE, !.calledAt = 0,
                                !.wakeAt = 0,
                                !.genCalls = @ + 1,
                                !.imageParts = req[r].processedImage])
    /\ admitted' = admitted + 1
    /\ UNCHANGED <<clock, requestCount, lastResetTime>>

\* model.generateContent resolves: generatePrompt awaits result.response
GenerateOk(r) ==
    /\ Ready
    /\ req[r].pc = "Generating"
    /\ Continue(r, [req[r] EXCEPT !.pc = "CleaningText"])
    /\ UNCHANGED <<clock, requestCount, lastResetTime, admitted>>

GenerateFail(r) ==
    /\ Ready
    /\ req[r].pc = "Generating"
    /\ Continue(r, catchError(req[r], "Failed to generate prompt"))
    /\ UNCHANGED <<clock, requestCount, lastResetTime, admitted>>

\* The handler's response to the prompt generatePrompt returned
respondPrompt(q, p) ==
    IF q.route = "/api/analyze" \/ wantsJson(q)
    THEN jsonPrompt(q, p)
    ELSE redirectPrompt(q, p)

\* response.text() returns: the text is cleaned and the handler responds
CleanAndRespond(r) ==
    /\ Ready
    /\ req[r].pc = "CleaningText"
    /\ \E text \in RawTexts :
        Continue(r, respondPrompt([req[r] EXCEPT !.raw = text, !.textOf = req[r].imageParts],
                                  cleanup(text)))
    /\ UNCHANGED <<clock, requestCount, lastResetTime, admitted>>

\* The same step with response.text() drawn from Texts
CleanText(r) ==
    /\ Ready
    /\ req[r].pc = "CleaningText"
    /\ \E text \in Texts :
        Continue(r, respondPrompt([req[r] EXCEPT !.raw = text, !.textOf = req[r].imageParts],
                                  cleanup(text)))
    /\ UNCHANGED <<clock, requestCount, lastResetTime, admitted>>

\* response.text() throws (a blocked response)
TextFail(r) ==
    /\ Ready
    /\ req[r].pc = "CleaningText"
    /\ Continue(r, catchError(req[r], "Failed to generate prompt"))
    /\ UNCHANGED <<clock, requestCount, lastResetTime, admitted>>

Next ==
    \/ Tick
    \/ \E r \in Slots : Arrive(r)
    \/ \E r \in Slots : DownloadOk(r)
    \/ \E r \in Slots : DownloadFail(r)
    \/ \E r \in Slots : ProcessOk(r)
    \/ \E r \in Slots : ProcessFail(r)
    \/ \E r \in Slots : TimerFires(r)
    \/ \E r \in Slots : GenerateOk(r)
    \/ \E r \in Slots : GenerateFail(r)
    \/ \E r \in Slots : CleanAndRespond(r)
    \/ \E r \in Slots : TextFail(r)
    \/ EndResponse

Spec == Init /\ [][Next]_vars

\* Time passes and a due timer is run by the event loop however many other
\* events it has to serve; a written response leaves.
SpecLive ==
    /\ Spec
    /\ SF_vars(Tick)
    /\ \A r \in Slots : SF_vars(TimerFires(r))
    /\ WF_vars(EndResponse)

\* The first request after start-up, taken through the pipeline to the cleanup
\* of a provider text from Texts.
NextClean ==
    \/ Arrive(1)
    \/ DownloadOk(1)
    \/ ProcessOk(1)
    \/ GenerateOk(1)
    \/ CleanText(1)

SpecClean == Init /\ [][NextClean]_vars

----------------------------------------------------------------------------
(* Actions of the client *)

Inputs == DOMAIN tasks

\* analyzeBatch(inputs, concurrency) on an extractor with options.retryAttempts:
\* the synchronous part, up to await Promise.all(promises)
analyzeBatch ==
    /\ batch.pc = "none"
    /\ \E n \in 0..MaxInputs, concurrency \in 1..MaxConcurrency,
          retryAttempts \in 1..MaxRetryAttempts :
        LET sem == mapAcquire(Semaphore(concurrency), 0, n)
        IN  /\ semaphore' = sem
            /\ tasks' = [i \in 0..(n - 1) |->
                            [NewTask EXCEPT !.pc = IF i \in Waiting(sem) THEN "queued"
                                                   ELSE "acquired"]]
            /\ batch' = [pc |-> "running", inputs |-> n, retryAttempts |-> retryAttempts,
                         returned |-> <<>>]
    /\ results' = <<>>
    /\ UNCHANGED serverVars

\* await semaphore.acquire() returns: the task calls this.analyze(input), which
\* awaits checkHealth()
Resume(i) ==
    /\ tasks[i].pc = "acquired"
    /\ tasks' = [tasks EXCEPT ![i].pc = "health"]
    /\ UNCHANGED <<semaphore, results, batch>>
    /\ UNCHANGED serverVars

\* The task function returns: the finally block releases the permit, and the
\* waiter release() has called next() for holds a permit
Return(i, t) ==
    LET sem == release(semaphore)
    IN  /\ semaphore' = sem
        /\ tasks' = [j \in Inputs |->
                        IF j = i THEN t
                        ELSE IF j \in Waiting(semaphore) \ Waiting(sem)
                             THEN [tasks[j] EXCEPT !.pc = "acquired"]
                        ELSE tasks[j]]

\* Mutant: the permit is released after a successful analysis only
ThrowNoFinally(i, t) ==
    /\ semaphore' = semaphore
    /\ tasks' = [tasks EXCEPT ![i] = t]

\* analyze throws: the finally block releases the permit all the same
Throw(i, t) ==
    LET sem == release(semaphore)
    IN  /\ semaphore' = sem
        /\ tasks' = [j \in Inputs |->
                        IF j = i THEN t
                        ELSE IF j \in Waiting(semaphore) \ Waiting(sem)
                             THEN [tasks[j] EXCEPT !.pc = "acquired"]
                        ELSE tasks[j]]

\* checkHealth() returns true: the first attempt is made
HealthOk(i) ==
    /\ tasks[i].pc = "health"
    /\ tasks' = [tasks EXCEPT ![i].pc = "attempt", ![i].attempt = 1, ![i].calls = 1]
    /\ UNCHANGED <<semaphore, results, batch>>
    /\ UNCHANGED serverVars

\* checkHealth() returns false: analyze throws 'Service is not available'
HealthFail(i) ==
    /\ tasks[i].pc = "health"
    /\ Throw(i, [tasks[i] EXCEPT !.pc = "rejected", !.error = Unavailable])
    /\ UNCHANGED <<results, batch>>
    /\ UNCHANGED serverVars

\* The attempt's result has success = true: analyze returns it, the task pushes
\* it on results
AttemptOk(i) ==
    /\ tasks[i].pc = "attempt"
    /\ results' = Append(results, [index |-> i, result |-> [input |-> i]])
    /\ Return(i, [tasks[i] EXCEPT !.pc = "fulfilled"])
    /\ UNCHANGED batch
    /\ UNCHANGED serverVars

\* Mutant: the loop runs one attempt more than retryAttempts
AttemptFailOneMore(i) ==
    /\ tasks[i].pc = "attempt"
    /\ LET t == [tasks[i] EXCEPT !.lastError = tasks[i].attempt]
       IN  IF t.attempt < batch.retryAttempts + 1
           THEN /\ tasks' = [tasks EXCEPT ![i] = [t EXCEPT !.pc = "delay",
                                                         !.delayMs = backoff(t.attempt)]]
                /\ UNCHANGED semaphore
           ELSE Throw(i, [t EXCEPT !.pc = "rejected", !.error = t.lastError])
    /\ UNCHANGED <<results, batch>>
    /\ UNCHANGED serverVars

\* The attempt's result has success = false (an error answer, or fetch failed):
\* the error is caught as lastError; the task waits and tries again, or throws
\* lastError after the last attempt
AttemptFail(i) ==
    /\ tasks[i].pc = "attempt"
    /\ LET t == [tasks[i] EXCEPT !.lastError = tasks[i].attempt]
       IN  IF t.attempt < batch.retryAttempts
           THEN /\ tasks' = [tasks EXCEPT ![i] = [t EXCEPT !.pc = "delay",
                                                         !.delayMs = backoff(t.attempt)]]
                /\ UNCHANGED semaphore
           ELSE Throw(i, [t EXCEPT !.pc = "rejected", !.error = t.lastError])
    /\ UNCHANGED <<results, batch>>
    /\ UNCHANGED serverVars

\* The timer of this.delay() fires: the next attempt is made
DelayDone(i) ==
    /\ tasks[i].pc = "delay"
    /\ tasks' = [tasks EXCEPT ![i].pc = "attempt", ![i].attempt = @ + 1, ![i].calls = @ + 1,
                              ![i].delayMs = 0]
    /\ UNCHANGED <<semaphore, results, batch>>
    /\ UNCHANGED serverVars

\* Promise.all is fulfilled: the results are sorted by index and mapped to
\* their result
BatchReturn ==
    /\ batch.pc = "running"
    /\ \A i \in Inputs : tasks[i].pc = "fulfilled"
    /\ LET sorted == sortByIndex(results)
       IN  batch' = [batch EXCEPT !.pc = "returned",
                                  !.returned = [k \in 1..Len(sorted) |-> sorted[k].result]]
    /\ UNCHANGED <<semaphore, tasks, results>>
    /\ UNCHANGED serverVars

\* Promise.all is rejected by the first task that throws: analyzeBatch throws,
\* the other tasks go on
BatchThrow ==
    /\ batch.pc = "running"
    /\ \E i \in Inputs : tasks[i].pc = "rejected"
    /\ batch' = [batch EXCEPT !.pc = "thrown"]
    /\ UNCHANGED <<semaphore, tasks, results>>
    /\ UNCHANGED serverVars

TaskStep(i) ==
    \/ Resume(i)
    \/ HealthOk(i)
    \/ HealthFail(i)
    \/ AttemptOk(i)
    \/ AttemptFail(i)
    \/ DelayDone(i)

NextBatch ==
    \/ analyzeBatch
    \/ \E i \in Inputs : Resume(i)
    \/ \E i \in Inputs : HealthOk(i)
    \/ \E i \in Inputs : HealthFail(i)
    \/ \E i \in Inputs : AttemptOk(i)
    \/ \E i \in Inputs : AttemptFail(i)
    \/ \E i \in Inputs : DelayDone(i)
    \/ BatchReturn
    \/ BatchThrow

SpecBatch == Init /\ [][NextBatch]_vars

\* Every fetch settles and every timer fires, and a settled promise's
\* continuation is run
SpecBatchLive ==
    /\ SpecBatch
    /\ \A i \in 0..(MaxInputs - 1) : WF_vars(i \in Inputs /\ TaskStep(i))
    /\ WF_vars(BatchReturn \/ BatchThrow)

----------------------------------------------------------------------------
(* Properties *)

\* Every request the state holds: those in flight and the one just answered
Requests == {req[r] : r \in Slots} \cup {answered}

\* The step is request r's call of rateLimit()
Called(r) == req'[r].rlCalls = req[r].rlCalls + 1

\* C1: requestCount never exceeds the ceiling of 15, whatever the arrival times
\* of the rateLimit() calls.
C1_CountWithinCeiling == requestCount <= CEILING

\* C2: within one rate window (between two resets of lastResetTime) at most 15
\* requests get past rateLimit() and start a provider call.
C2_AtMostCeilingAdmitted == admitted <= CEILING

\* C3: a rateLimit() call that finds requestCount = 15 with elapsed = now -
\* lastResetTime below the window is suspended on a timer of exactly
\* WINDOW - elapsed ms, starts no provider call in that step, and leaves the
\* wait only for the provider call and only once the timer is due.
C3_SuspendedForRemainder ==
    [][\A r \in Slots :
        /\ (Called(r) /\ requestCount = CEILING /\ clock - lastResetTime < WINDOW)
            => /\ req'[r].pc = "RateLimited"
               /\ req'[r].wakeAt = clock + (WINDOW - (clock - lastResetTime))
               /\ req'[r].genCalls = req[r].genCalls
        /\ (req[r].pc = "RateLimited" /\ req'[r].pc # "RateLimited")
            => /\ req'[r].pc = "Generating"
               /\ req'[r].genCalls = req[r].genCalls + 1
               /\ clock >= req[r].wakeAt]_vars

\* C3's case: a request was suspended at a full window, half a window in, and
\* has gone on to the provider call.
C3_Witness ==
    \E r \in Slots : /\ req[r].pc = "Generating"
                     /\ req[r].waited
                     /\ requestCount = CEILING
                     /\ clock = lastResetTime + WINDOW

\* C4: a rateLimit() call made more than a window after lastResetTime does not
\* wait, whatever requestCount was, and leaves requestCount = 1 and
\* lastResetTime = now.
C4_ExpiredWindowResets ==
    [][\A r \in Slots :
        (Called(r) /\ clock - lastResetTime > WINDOW)
            => /\ req'[r].pc = "Generating"
               /\ requestCount' = 1
               /\ lastResetTime' = clock]_vars

\* C4's case: a call has just reset a window that was full (another request is
\* still suspended on it).
C4_Witness ==
    /\ requestCount = 1
    /\ lastResetTime = clock
    /\ clock > WINDOW
    /\ \E r, w \in Slots : /\ req[r].pc = "Generating" /\ ~req[r].waited
                           /\ req[w].pc = "RateLimited"

\* C5: by the time a request proceeds to the provider call, its rateLimit()
\* call has incremented requestCount by exactly one.
C5_EveryCallCounted ==
    \A q \in Requests : q.genCalls > 0 => q.counted = 1

\* C6: requestCount equals the number of callers admitted to the provider
\* since the last reset.
C6_CountIsAdmitted == requestCount = admitted

C8_OneTerminalOutcome ==
    /\ \A r \in Slots : req[r].responses = 0 /\ req[r].pc \notin Terminal
    /\ answered # Idle =>
        /\ answered.responses = 1
        /\ \/ /\ answered.pc = "Done"
              /\ answered.success
              /\ answered.hasPrompt
              /\ answered.prompt = cleanup(answered.raw)
              /\ answered.error = "none"
              /\ answered.route = "/api/analyze" => answered.status = 200
           \/ /\ answered.pc = "Failed"
              /\ ~answered.success
              /\ ~answered.hasPrompt
              /\ answered.prompt = <<>>
              /\ answered.error # "none"
              /\ answered.status \in {302, 400, 413, 500}
              /\ answered.route = "/api/analyze" => answered.status # 302

\* C8's case: a request has ended Done with a prompt the cleanup changed.
C8_Witness ==
    /\ answered.pc = "Done"
    /\ answered.route = "/api/analyze"
    /\ answered.prompt # answered.raw
    /\ answered.prompt = <<"a", " ", "r", "e", "d", " ", "b", "a", "l", "l">>

Edges == {
    <<"Idle", "Acquiring">>, <<"Idle", "Normalizing">>, <<"Idle", "Failed">>,
    <<"Acquiring", "Normalizing">>, <<"Acquiring", "Failed">>,
    <<"Normalizing", "RateLimited">>, <<"Normalizing", "Generating">>,
    <<"Normalizing", "Failed">>,
    <<"RateLimited", "Generating">>,
    <<"Generating", "CleaningText">>, <<"Generating", "Failed">>,
    <<"CleaningText", "Done">>, <<"CleaningText", "Failed">> }

\* C9: a request moves through Idle, Acquiring, Normalizing, RateLimited
\* (optional), Generating, CleaningText, Done | Failed in this order only (an
\* upload is acquired within the step that accepts it; an answered request
\* leaves its slot), and calls rateLimit() only when its image has been
\* acquired and normalized.
C9_StagesInOrder ==
    [][/\ \A r \in Slots :
            /\ req'[r] # req[r]
                => <<req[r].pc, IF req'[r].pc = "Idle" THEN answered'.pc ELSE req'[r].pc>>
                        \in Edges
            /\ Called(r)
                => /\ req[r].pc = "Normalizing"
                   /\ req[r].processed = 1
                   /\ req[r].url => req[r].downloads = 1
       /\ (answered' # Idle /\ req' = req)
            => <<"Idle", answered'.pc>> \in Edges /\ answered'.rlCalls = 0]_vars

\* C9's case: a request has gone through every stage, the wait included.
C9_Witness ==
    /\ answered.pc = "Done"
    /\ answered.url
    /\ answered.waited
    /\ answered.downloads = 1 /\ answered.processed = 1 /\ answered.rlCalls = 1

\* C10: a request attempts the download at most once and the provider call at
\* most once, and a failed stage ends it: a request failed by the download has
\* processed nothing and called neither rateLimit() nor the provider, one failed
\* by the image processing has called neither.
C10_NoRetry ==
    \A q \in Requests :
        /\ q.downloads <= 1 /\ q.processed <= 1 /\ q.rlCalls <= 1 /\ q.genCalls <= 1
        /\ q.error = "Failed to download image"
            => q.pc = "Failed" /\ q.downloads = 1 /\ q.processed = 0
               /\ q.rlCalls = 0 /\ q.genCalls = 0
        /\ q.error = "Image processing failed"
            => q.pc = "Failed" /\ q.processed = 1 /\ q.rlCalls = 0 /\ q.genCalls = 0
        /\ q.error = "Failed to generate prompt"
            => q.pc = "Failed" /\ q.genCalls = 1

\* C10's case: a download has failed and its request has ended.
C10_Witness ==
    /\ answered.pc = "Failed"
    /\ answered.error = "Failed to download image"
    /\ answered.downloads = 1
    /\ answered.status = 500

StageErrors == {"Failed to download image", "Image processing failed",
                "Failed to generate prompt"}

\* C11: on POST /api/analyze a request whose download, image processing or
\* provider call fails is answered 500 with {success: false, error: message}.
C11_StageFailureIs500 ==
    [][\A r \in Slots :
        (/\ req[r].route = "/api/analyze"
         /\ req[r].pc \in {"Acquiring", "Normalizing", "Generating", "CleaningText"}
         /\ req'[r].pc = "Idle"
         /\ answered'.pc = "Failed")
            => /\ answered'.status = 500
               /\ ~answered'.success
               /\ ~answered'.hasPrompt
               /\ answered'.error \in StageErrors
               /\ answered'.responses = 1]_vars

\* C11's case: the provider call of an /api/analyze request has failed.
C11_Witness ==
    /\ answered.route = "/api/analyze"
    /\ answered.error = "Failed to generate prompt"
    /\ answered.genCalls = 1
    /\ answered.status = 500

\* C12: an upload whose MIME type is outside the allow-list is answered 400
\* with {success: false, error}.
C12_BadTypeIs400 ==
    \A q \in Requests :
        (q.file # NoFile /\ q.file.mimetype \notin allowedTypes /\ q.pc \in Terminal)
            => q.status = 400 /\ ~q.success /\ q.error # "none"

C14_OversizeDownloadIs413 ==
    \A q \in Requests :
        (q.route = "/api/analyze" /\ q.cause = "maxContentLength")
            => q.status = 413 /\ q.processed = 0 /\ q.genCalls = 0

\* C15: a request rejected for carrying both or neither of image_url and an
\* upload starts no download, no image processing and no provider call, calls
\* rateLimit() not at all, and leaves requestCount and lastResetTime as they were.
C15_RejectionDoesNoIO ==
    [][/\ \A r \in Slots :
            req'[r].pc # "Idle" => req'[r].url # (req'[r].file # NoFile)
       /\ (/\ answered' # Idle
           /\ multer(answered'.file) = "next"
           /\ answered'.url = (answered'.file # NoFile))
            => /\ answered'.status = 400
               /\ answered'.downloads = 0 /\ answered'.processed = 0
               /\ answered'.rlCalls = 0 /\ answered'.genCalls = 0
               /\ requestCount' = requestCount
               /\ lastResetTime' = lastResetTime
               /\ admitted' = admitted]_vars

\* C15's case: a request with neither source has been rejected while the rate
\* window was in use.
C15_Witness ==
    /\ answered.status = 400
    /\ ~answered.url /\ answered.file = NoFile
    /\ requestCount > 0
    /\ \E r \in Slots : req[r].pc = "Generating"

\* C16: the wait in rateLimit() never fails a request: a suspended request
\* leaves the wait only for the provider call, and a request that has waited
\* ends Done or Failed by a step of its provider call alone.
C16_WaitIsNotAnError ==
    [][/\ \A r \in Slots :
            (req[r].pc = "RateLimited" /\ req'[r] # req[r])
                => /\ req'[r].pc = "Generating"
                   /\ req'[r].genCalls = 1
                   /\ answered' = Idle
       /\ (answered' # Idle /\ answered'.waited)
            => /\ answered'.genCalls = 1
               /\ \E r \in Slots : /\ req[r].pc \in {"Generating", "CleaningText"}
                                   /\ req[r].waited
                                   /\ req'[r].pc = "Idle"
               /\ \/ answered'.pc = "Done"
                  \/ answered'.pc = "Failed" /\ answered'.error = "Failed to generate prompt"]_vars

\* C16's case: a request that was suspended has ended Done.
C16_Witness ==
    /\ answered.waited
    /\ answered.pc = "Done"
    /\ answered.hasPrompt

\* The overall request timeout the specification recommends (at most 40 s)
OverallTimeout == 40 * 1000

\* C17: no request stays suspended in rateLimit() for longer than the overall
\* request timeout.
C17_WaitWithinTimeout ==
    \A r \in Slots : req[r].pc = "RateLimited" => clock - req[r].calledAt <= OverallTimeout

\* C23: whatever the interleaving, the image a request hands to the provider
\* and the text its prompt is made from are those of its own input: every
\* buffer a request holds is empty or its own.
C23_OwnInputOnly ==
    /\ \A r \in Slots : req[r].pc # "Idle" => req[r].input = r
    /\ \A q \in Requests :
        /\ {q.imageBuffer, q.processedImage, q.imageParts, q.textOf} \subseteq {0, q.input}
        /\ q.genCalls > 0 => q.imageParts = q.input
        /\ q.pc = "Done" => q.textOf = q.input

\* C23's case: a request given a URL was answered while another request was in
\* flight with its image at the provider.
C23_Witness ==
    /\ answered.pc = "Done"
    /\ answered.url
    /\ answered.textOf = answered.input
    /\ \E r \in Slots : req[r].pc = "Generating" /\ req[r].input # answered.input

\* The last instant of the clock's grid
Horizon == MaxTicks * TICK

\* C24: a rateLimit() call resolves: the caller waits at most once, for more
\* than 0 and at most 60000 ms, the limiter is not called again after the wait,
\* and a suspended request leaves the wait.
C24_WaitEnds ==
    /\ [][\A r \in Slots :
            /\ (req[r].pc # "RateLimited" /\ req'[r].pc = "RateLimited")
                => /\ req'[r].wakeAt - clock > 0
                   /\ req'[r].wakeAt - clock <= WINDOW
                   /\ ~req'[r].waited
                   /\ req'[r].rlCalls = 1
            /\ (req[r].pc = "RateLimited" /\ req'[r] # req[r])
                => /\ req'[r].pc = "Generating"
                   /\ req'[r].waited
                   /\ req'[r].rlCalls = 1]_vars
    /\ \A r \in Slots :
        (req[r].pc = "RateLimited" /\ req[r].wakeAt <= Horizon) ~> (req[r].pc = "Generating")

\* C24's case: a request that was made to wait is at the provider.
C24_Witness ==
    \E r \in Slots : req[r].pc = "Generating" /\ req[r].waited /\ req[r].rlCalls = 1

\* C25: a request that fails in the download or in the image processing takes
\* no rate-limit slot: it never calls rateLimit(), the step that fails it leaves
\* requestCount and lastResetTime as they are, and no provider call is made.
C25_EarlyFailureTakesNoSlot ==
    [][(answered' # Idle /\ answered'.error \in {"Failed to download image",
                                                 "Image processing failed"})
        => /\ answered'.rlCalls = 0
           /\ answered'.counted = 0
           /\ answered'.genCalls = 0
           /\ answered'.imageParts = 0
           /\ requestCount' = requestCount
           /\ lastResetTime' = lastResetTime
           /\ admitted' = admitted]_vars

\* C25's case: the image processing of a request has failed while the window
\* was in use.
C25_Witness ==
    /\ answered.error = "Image processing failed"
    /\ answered.processed = 1
    /\ requestCount > 0

----------------------------------------------------------------------------
(* The text cleanup (SpecClean) *)

\* C18: the cleanup is idempotent: cleaning a returned prompt again returns it
\* unchanged.
C18_CleanupIdempotent ==
    answered.pc = "Done" => cleanup(answered.prompt) = answered.prompt

\* C19: a returned prompt does not start, in any letter case, with one of the
\* prefixes of the list.
C19_NoKnownPrefix ==
    answered.pc = "Done" =>
        \A i \in 1..Len(prefixes) :
            ~startsWith(toLowerCase(answered.prompt), toLowerCase(prefixes[i]))

\* C20: a returned prompt does not end with a period.
C20_NoTrailingPeriod ==
    answered.pc = "Done" => ~endsWith(answered.prompt, <<".">>)

\* C21: a returned prompt neither begins nor ends with a double quote.
C21_NoOuterQuotes ==
    answered.pc = "Done" =>
        /\ ~startsWith(answered.prompt, <<"\"">>)
        /\ ~endsWith(answered.prompt, <<"\"">>)

\* The text the prefix loop works on, and the steps that follow the loop
beforePrefixes(text) == stripQuotes(trim(text))

afterPrefixes(s) == dropPeriod(trim(collapseWhitespace(removeStars(removeStarPairs(s)))))

\* The prefixes of the list that match the start of s, by position in the list
matching(s) == {i \in 1..Len(prefixes) : startsWith(toLowerCase(s), toLowerCase(prefixes[i]))}

\* C22: prefix stripping is first-match-wins: the first prefix in list order
\* that matches (in any letter case) is cut, nothing else is cut even when what
\* is left starts with a listed prefix, and a text that matches none is kept.
C22_FirstMatchWins ==
    answered.pc = "Done" =>
        LET s == beforePrefixes(answered.raw)
        IN  /\ matching(s) = {} => answered.prompt = afterPrefixes(s)
            /\ \A i \in matching(s) :
                    (\A j \in matching(s) : i <= j)
                        => answered.prompt = afterPrefixes(trim(sliceFrom(s, Len(prefixes[i]))))

\* C22's case: a prefix was cut and what is left starts with another prefix of
\* the list, which is returned.
C22_Witness ==
    /\ answered.pc = "Done"
    /\ startsWith(toLowerCase(answered.raw), toLowerCase(prefixes[3]))
    /\ startsWith(answered.prompt, prefixes[9])
    /\ Len(answered.prompt) > Len(prefixes[9])

----------------------------------------------------------------------------
(* The client (SpecBatch, SpecBatchLive) *)

\* The tasks that hold a permit: past acquire() and not yet through finally
Holders == {i \in Inputs : tasks[i].pc \in Analyzing \cup {"acquired"}}

AllSettled == batch.pc # "none" /\ \A i \in Inputs : tasks[i].pc \in Settled

\* C26: analyzeBatch never has more than concurrency analyze() calls in flight:
\* currentConcurrency stays between 0 and maxConcurrency and counts the tasks
\* that hold a permit.
C26_ConcurrencyBounded ==
    /\ semaphore.currentConcurrency >= 0
    /\ semaphore.currentConcurrency <= semaphore.maxConcurrency
    /\ Cardinality({i \in Inputs : tasks[i].pc \in Analyzing}) <= semaphore.maxConcurrency
    /\ Cardinality(Holders) = semaphore.currentConcurrency

\* C26's case: as many analyses as permits are in flight and an input waits.
C26_Witness ==
    /\ semaphore.maxConcurrency > 1
    /\ Cardinality({i \in Inputs : tasks[i].pc \in Analyzing}) = semaphore.maxConcurrency
    /\ Len(semaphore.queue) > 0

\* C27: after a successful health check analyze makes at most retryAttempts
\* attempts; it returns at the first attempt that succeeds and makes no
\* further one; when every attempt has failed it throws the last attempt's error.
C27_AtMostRetryAttempts ==
    /\ [](\A i \in Inputs :
            /\ tasks[i].calls <= batch.retryAttempts
            /\ tasks[i].attempt = tasks[i].calls
            /\ tasks[i].pc = "fulfilled"
                => tasks[i].calls >= 1 /\ tasks[i].lastError = tasks[i].calls - 1
            /\ (tasks[i].pc = "rejected" /\ tasks[i].error # Unavailable)
                => /\ tasks[i].calls = batch.retryAttempts
                   /\ tasks[i].error = batch.retryAttempts
            /\ (tasks[i].pc = "rejected" /\ tasks[i].error = Unavailable)
                => tasks[i].calls = 0)
    /\ [][\A i \in Inputs : tasks[i].pc \in Settled => tasks'[i] = tasks[i]]_vars

\* C27's case: one analysis succeeded at its second attempt, another has
\* failed at all three attempts.
C27_Witness ==
    /\ batch.retryAttempts = 3
    /\ \E i \in Inputs : tasks[i].pc = "fulfilled" /\ tasks[i].calls = 2
    /\ \E i \in Inputs : tasks[i].pc = "rejected" /\ tasks[i].error = 3

\* C28: the delay after failed attempt k is 1000 * 2^(k-1) ms, and it is taken
\* for k below retryAttempts only.
C28_ExponentialBackoff ==
    \A i \in Inputs :
        tasks[i].pc = "delay"
            => /\ tasks[i].attempt < batch.retryAttempts
               /\ tasks[i].delayMs = 1000 * 2 ^ (tasks[i].attempt - 1)

\* C29: a task releases its permit when its analyze() call succeeds and when it
\* throws; permits go to the waiters in the order they queued; every queued
\* input is started; and when all tasks have settled currentConcurrency is 0
\* and the queue is empty.
C29_PermitsAlwaysReleased ==
    /\ [][/\ (Len(semaphore.queue) > 0 /\ semaphore' # semaphore)
                => /\ semaphore'.queue = Tail(semaphore.queue)
                   /\ semaphore'.currentConcurrency = semaphore.currentConcurrency
                   /\ tasks[Head(semaphore.queue)].pc = "queued"
                   /\ tasks'[Head(semaphore.queue)].pc = "acquired"
          /\ \A i \in Inputs :
                (tasks[i].pc \notin Settled /\ tasks'[i].pc \in Settled)
                    => /\ i \notin Holders'
                       /\ Cardinality(Holders') = semaphore'.currentConcurrency
                       /\ Len(semaphore.queue) = 0
                            => semaphore'.currentConcurrency = semaphore.currentConcurrency - 1
          /\ \A i \in Inputs :
                (tasks[i].pc = "queued" /\ tasks'[i] # tasks[i]) => tasks'[i].pc = "acquired"]_vars
    /\ [](AllSettled => semaphore.currentConcurrency = 0 /\ semaphore.queue = <<>>)
    /\ \A i \in 0..(MaxInputs - 1) :
        (i \in Inputs /\ tasks[i].pc = "queued") ~> (i \in Inputs /\ tasks[i].pc = "health")
    /\ (batch.pc = "running") ~> AllSettled

\* C29's case: with one permit for three inputs an analysis has thrown and all
\* tasks have settled.
C29_Witness ==
    /\ AllSettled
    /\ batch.inputs = MaxInputs
    /\ semaphore.maxConcurrency = 1
    /\ tasks[0].pc = "rejected"
    /\ tasks[MaxInputs - 1].pc = "fulfilled"

\* C30: when every analysis succeeds the returned array has the length of
\* inputs and its i-th element is the result for inputs[i], whatever the order
\* of completion.
C30_ResultsInInputOrder ==
    batch.pc = "returned" =>
        /\ Len(batch.returned) = batch.inputs
        /\ \A k \in 1..Len(batch.returned) : batch.returned[k] = [input |-> k - 1]

\* C30's case: three analyses have completed in another order than their inputs.
C30_Witness ==
    /\ batch.pc = "returned"
    /\ batch.inputs = MaxInputs
    /\ results[1].index = MaxInputs - 1
    /\ results[MaxInputs].index = 0

====
